---- MODULE Spec2Model ----
(***************************************************************************)
(* TextLands CLI (src/textlands_cli/main.py, src/textlands_cli/client.py): *)
(* the natural-language intent router, the game loop and the login /       *)
(* identity-store life cycle.                                              *)
(*                                                                         *)
(* A Python str is a sequence of one-character strings; None is the empty  *)
(* tuple and a present optional value v is <<v>>.                          *)
(***************************************************************************)
EXTENDS Integers, Sequences, FiniteSets, TLC

\* ---------------------------------------------------------------- str

None == <<>>

Some(v) == <<v>>

UpperChars == <<"A","B","C","D","E","F","G","H","I","J","K","L","M","N","O","P","Q","R","S","T","U","V","W","X","Y","Z">>

LowerChars == <<"a","b","c","d","e","f","g","h","i","j","k","l","m","n","o","p","q","r","s","t","u","v","w","x","y","z">>

Digits == {"0","1","2","3","4","5","6","7","8","9"}

\* str.lower() on one character
LowerChar(c) ==
  IF \E i \in 1..26 : UpperChars[i] = c
  THEN LowerChars[CHOOSE i \in 1..26 : UpperChars[i] = c]
  ELSE c

\* str.lower()
lower(s) == [i \in 1..Len(s) |-> LowerChar(s[i])]

\* the characters str.strip() removes and \s matches
IsSpace(c) == c \in {" ", "\t"}

\* the characters \w matches
IsWordChar(c) ==
  \/ \E i \in 1..26 : c = UpperChars[i] \/ c = LowerChars[i]
  \/ c \in Digits
  \/ c = "_"

\* str.strip()
strip(s) ==
  LET keep == {i \in 1..Len(s) : ~IsSpace(s[i])}
  IN  IF keep = {} THEN <<>>
      ELSE LET a == CHOOSE i \in keep : \A j \in keep : i <= j
               b == CHOOSE i \in keep : \A j \in keep : j <= i
           IN  SubSeq(s, a, b)

\* str.startswith(prefix)
startswith(s, prefix) ==
  Len(prefix) <= Len(s) /\ SubSeq(s, 1, Len(prefix)) = prefix

\* whether sub occurs in s at 0-based offset i
OccursAt(s, sub, i) ==
  i + Len(sub) <= Len(s) /\ SubSeq(s, i + 1, i + Len(sub)) = sub

\* str.find(sub): the lowest 0-based offset of sub in s, -1 when absent
find(s, sub) ==
  LET hits == {i \in 0..Len(s) : OccursAt(s, sub, i)}
  IN  IF hits = {} THEN -1
      ELSE CHOOSE i \in hits : \A j \in hits : i <= j

\* sub in s
contains(s, sub) == find(s, sub) >= 0

\* s[start:] for start >= 0
SliceFrom(s, start) == SubSeq(s, start + 1, Len(s))

\* ---------------------------------------------------------------- re

\* Regular expressions as syntax trees, matched the way Python's re does:
\* a backtracking search that tries alternatives left to right and
\* quantifiers greedily.  Match returns every way the expression can match
\* at offset i, in the order the search would try them.

Lit(w) == [t |-> "lit", w |-> w]

Cls(k) == [t |-> "cls", k |-> k]

Cat(rs) == [t |-> "cat", rs |-> rs]

Alt(rs) == [t |-> "alt", rs |-> rs]

Opt(r) == [t |-> "opt", r |-> r]

Plus(r) == [t |-> "plus", r |-> r]

Star(r) == [t |-> "star", r |-> r]

Grp(n, r) == [t |-> "grp", n |-> n, r |-> r]

EndOfString == [t |-> "end"]

\* \s, \w, . and [:\-]
InClass(k, c) ==
  CASE k = "s" -> IsSpace(c)
    [] k = "w" -> IsWordChar(c)
    [] k = "dot" -> c # "\n"
    [] k = "colon_dash" -> c \in {":", "-"}

NoGroups == [n \in 1..2 |-> <<-1, -1>>]

RECURSIVE Match(_, _, _, _)
RECURSIVE MatchCat(_, _, _, _, _)
RECURSIVE MatchCatEach(_, _, _, _, _)
RECURSIVE MatchAlt(_, _, _, _, _)
RECURSIVE MatchStar(_, _, _, _)
RECURSIVE MatchStarEach(_, _, _, _)

Match(r, s, i, caps) ==
  CASE r.t = "lit" ->
         IF OccursAt(s, r.w, i)
         THEN <<[pos |-> i + Len(r.w), caps |-> caps]>> ELSE <<>>
    [] r.t = "cls" ->
         IF i < Len(s) /\ InClass(r.k, s[i + 1])
         THEN <<[pos |-> i + 1, caps |-> caps]>> ELSE <<>>
    [] r.t = "end" ->
         IF i = Len(s) THEN <<[pos |-> i, caps |-> caps]>> ELSE <<>>
    [] r.t = "cat" -> MatchCat(r.rs, 1, s, i, caps)
    [] r.t = "alt" -> MatchAlt(r.rs, 1, s, i, caps)
    [] r.t = "opt" -> Match(r.r, s, i, caps) \o <<[pos |-> i, caps |-> caps]>>
    [] r.t = "star" -> MatchStar(r.r, s, i, caps)
    [] r.t = "plus" -> MatchStarEach(r.r, s, Match(r.r, s, i, caps), 1)
    [] r.t = "grp" ->
         LET res == Match(r.r, s, i, caps)
         IN  [k \in 1..Len(res) |->
               [pos |-> res[k].pos,
                caps |-> [res[k].caps EXCEPT ![r.n] = <<i, res[k].pos>>]]]

MatchCat(rs, k, s, i, caps) ==
  IF k > Len(rs) THEN <<[pos |-> i, caps |-> caps]>>
  ELSE MatchCatEach(rs, k, s, Match(rs[k], s, i, caps), 1)

MatchCatEach(rs, k, s, res, j) ==
  IF j > Len(res) THEN <<>>
  ELSE MatchCat(rs, k + 1, s, res[j].pos, res[j].caps)
         \o MatchCatEach(rs, k, s, res, j + 1)

MatchAlt(rs, k, s, i, caps) ==
  IF k > Len(rs) THEN <<>>
  ELSE Match(rs[k], s, i, caps) \o MatchAlt(rs, k + 1, s, i, caps)

MatchStar(r, s, i, caps) ==
  MatchStarEach(r, s, Match(r, s, i, caps), 1) \o <<[pos |-> i, caps |-> caps]>>

MatchStarEach(r, s, res, j) ==
  IF j > Len(res) THEN <<>>
  ELSE MatchStar(r, s, res[j].pos, res[j].caps) \o MatchStarEach(r, s, res, j + 1)

\* re.match(pattern, s): the groups of the first match found, or None
re_match(pattern, s) ==
  LET res == Match(pattern, s, 0, NoGroups)
  IN  IF res = <<>> THEN None ELSE Some(res[1].caps)

\* match.group(n)
group(m, n, s) == SubSeq(s, m[1][n][1] + 1, m[1][n][2])

\* the first pattern of the list that matches s, 0 when none does
FirstMatching(patterns, s) ==
  LET hits == {k \in 1..Len(patterns) : re_match(patterns[k], s) # None}
  IN  IF hits = {} THEN 0
      ELSE CHOOSE k \in hits : \A j \in hits : k <= j

W_dm == <<"d","m">>

W_message == <<"m","e","s","s","a","g","e">>

W_msg == <<"m","s","g">>

W_whisper == <<"w","h","i","s","p","e","r">>

W_pm == <<"p","m">>

W_tell == <<"t","e","l","l">>

W_that == <<"t","h","a","t">>

W_send == <<"s","e","n","d">>

W_a == <<"a">>

W_to == <<"t","o">>

W_saying == <<"s","a","y","i","n","g">>

W_and == <<"a","n","d">>

W_say == <<"s","a","y">>

W_them == <<"t","h","e","m">>

W_let == <<"l","e","t">>

W_know == <<"k","n","o","w">>

W_global == <<"g","l","o","b","a","l">>

W_broadcast == <<"b","r","o","a","d","c","a","s","t">>

W_shout == <<"s","h","o","u","t">>

W_everyone == <<"e","v","e","r","y","o","n","e">>

W_all == <<"a","l","l">>

W_everybody == <<"e","v","e","r","y","b","o","d","y">>

W_the_world == <<"t","h","e"," ","w","o","r","l","d">>

\* ------------------------------------------------- intent patterns

Spaces1 == Plus(Cls("s"))

Spaces0 == Star(Cls("s"))

Word1 == Plus(Cls("w"))

Any1 == Plus(Cls("dot"))

\* the patterns of _parse_dm_intent, in the order they are tried
dm_patterns ==
  << \* ^(?:dm|message|msg|whisper|pm)\s+(\w+)\s+(.+)$
     Cat(<<Alt(<<Lit(W_dm), Lit(W_message), Lit(W_msg), Lit(W_whisper), Lit(W_pm)>>),
           Spaces1, Grp(1, Word1), Spaces1, Grp(2, Any1), EndOfString>>),
     \* ^tell\s+(\w+)\s+(?:that\s+)?(.+)$
     Cat(<<Lit(W_tell), Spaces1, Grp(1, Word1), Spaces1,
           Opt(Cat(<<Lit(W_that), Spaces1>>)), Grp(2, Any1), EndOfString>>),
     \* ^send\s+(?:a\s+)?(?:message|dm|pm)\s+to\s+(\w+)\s+(?:saying\s+)?(.+)$
     Cat(<<Lit(W_send), Spaces1, Opt(Cat(<<Lit(W_a), Spaces1>>)),
           Alt(<<Lit(W_message), Lit(W_dm), Lit(W_pm)>>), Spaces1,
           Lit(W_to), Spaces1, Grp(1, Word1), Spaces1,
           Opt(Cat(<<Lit(W_saying), Spaces1>>)), Grp(2, Any1), EndOfString>>),
     \* ^(?:message|dm|pm)\s+(\w+)\s+(?:and\s+)?(?:say|tell\s+them)\s+(.+)$
     Cat(<<Alt(<<Lit(W_message), Lit(W_dm), Lit(W_pm)>>), Spaces1,
           Grp(1, Word1), Spaces1, Opt(Cat(<<Lit(W_and), Spaces1>>)),
           Alt(<<Lit(W_say), Cat(<<Lit(W_tell), Spaces1, Lit(W_them)>>)>>),
           Spaces1, Grp(2, Any1), EndOfString>>),
     \* ^let\s+(\w+)\s+know\s+(?:that\s+)?(.+)$
     Cat(<<Lit(W_let), Spaces1, Grp(1, Word1), Spaces1, Lit(W_know), Spaces1,
           Opt(Cat(<<Lit(W_that), Spaces1>>)), Grp(2, Any1), EndOfString>>) >>

\* the patterns of _parse_global_chat_intent, in the order they are tried
global_patterns ==
  << \* ^global\s+(.+)$
     Cat(<<Lit(W_global), Spaces1, Grp(1, Any1), EndOfString>>),
     \* ^(?:say|tell|broadcast|shout)\s+(?:to\s+)?(?:everyone|all|everybody|the world)\s*[:\-]?\s*(.+)$
     Cat(<<Alt(<<Lit(W_say), Lit(W_tell), Lit(W_broadcast), Lit(W_shout)>>), Spaces1,
           Opt(Cat(<<Lit(W_to), Spaces1>>)),
           Alt(<<Lit(W_everyone), Lit(W_all), Lit(W_everybody), Lit(W_the_world)>>),
           Spaces0, Opt(Cls("colon_dash")), Spaces0, Grp(1, Any1), EndOfString>>),
     \* ^(?:to\s+)?(?:everyone|all|everybody)[:\-]?\s+(.+)$
     Cat(<<Opt(Cat(<<Lit(W_to), Spaces1>>)),
           Alt(<<Lit(W_everyone), Lit(W_all), Lit(W_everybody)>>),
           Opt(Cls("colon_dash")), Spaces1, Grp(1, Any1), EndOfString>>) >>

inbox_phrases ==
  << <<"i","n","b","o","x">>,
     <<"m","e","s","s","a","g","e","s">>,
     <<"m","a","i","l">>,
     <<"d","m","s">>,
     <<"c","h","e","c","k"," ","m","e","s","s","a","g","e","s">>,
     <<"c","h","e","c","k"," ","m","y"," ","m","e","s","s","a","g","e","s">>,
     <<"a","n","y"," ","m","e","s","s","a","g","e","s">>,
     <<"d","o"," ","i"," ","h","a","v","e"," ","m","e","s","s","a","g","e","s">>,
     <<"w","h","o"," ","m","e","s","s","a","g","e","d"," ","m","e">>,
     <<"w","h","o"," ","w","r","o","t","e"," ","m","e">>,
     <<"s","h","o","w"," ","m","e","s","s","a","g","e","s">>,
     <<"r","e","a","d"," ","m","e","s","s","a","g","e","s">>,
     <<"u","n","r","e","a","d">>,
     <<"m","y"," ","i","n","b","o","x">> >>

\* ------------------------------------------------- intent parsers

\* _parse_dm_intent(text): None, or the pair (recipient, message)
_parse_dm_intent(text) ==
  LET text_lower == strip(lower(text))
      k == FirstMatching(dm_patterns, text_lower)
  IN  IF k = 0 THEN None
      ELSE LET match == re_match(dm_patterns[k], text_lower)
               recipient == group(match, 1, text_lower)
               msg_start == find(text_lower, group(match, 2, text_lower))
               message == IF msg_start > 0 THEN SliceFrom(text, msg_start)
                          ELSE group(match, 2, text_lower)
           IN  Some([recipient |-> recipient, message |-> message])

\* _parse_inbox_intent(text)
_parse_inbox_intent(text) ==
  LET text_lower == strip(lower(text))
  IN  \E p \in 1..Len(inbox_phrases) : contains(text_lower, inbox_phrases[p])

\* _parse_global_chat_intent(text): None, or the message
_parse_global_chat_intent(text) ==
  LET text_lower == strip(lower(text))
      k == FirstMatching(global_patterns, text_lower)
  IN  IF k = 0 THEN None
      ELSE LET match == re_match(global_patterns[k], text_lower)
               msg_start == find(text_lower, group(match, 1, text_lower))
           IN  Some(IF msg_start > 0 THEN SliceFrom(text, msg_start)
                    ELSE group(match, 1, text_lower))

\* ------------------------------------------------- input lines

\* "tell everyone Hello World"
Ex_TellEveryone == <<"t","e","l","l"," ","e","v","e","r","y","o","n","e"," ","H","e","l","l","o"," ","W","o","r","l","d">>

\* "Message Kira I Found The Treasure"
Ex_MessageKira == <<"M","e","s","s","a","g","e"," ","K","i","r","a"," ","I"," ","F","o","u","n","d"," ","T","h","e"," ","T","r","e","a","s","u","r","e">>

\* "message Bob who messaged me first"
Ex_MessageBob == <<"m","e","s","s","a","g","e"," ","B","o","b"," ","w","h","o"," ","m","e","s","s","a","g","e","d"," ","m","e"," ","f","i","r","s","t">>

\* "who messaged me"
Ex_WhoMessagedMe == <<"w","h","o"," ","m","e","s","s","a","g","e","d"," ","m","e">>

\* "attack the goblin"
Ex_AttackGoblin == <<"a","t","t","a","c","k"," ","t","h","e"," ","g","o","b","l","i","n">>

\* "Attack The Goblin"
Ex_AttackGoblinCaps == <<"A","t","t","a","c","k"," ","T","h","e"," ","G","o","b","l","i","n">>

\* "Read the ancient messages on the wall"
Ex_ReadWall == <<"R","e","a","d"," ","t","h","e"," ","a","n","c","i","e","n","t"," ","m","e","s","s","a","g","e","s"," ","o","n"," ","t","h","e"," ","w","a","l","l">>

\* "global Hello There"
Ex_GlobalHello == <<"g","l","o","b","a","l"," ","H","e","l","l","o"," ","T","h","e","r","e">>

\* "Global check your Mail"
Ex_GlobalMail == <<"G","l","o","b","a","l"," ","c","h","e","c","k"," ","y","o","u","r"," ","M","a","i","l">>

\* "Shout to the world: Dragon Sighted"
Ex_ShoutWorld == <<"S","h","o","u","t"," ","t","o"," ","t","h","e"," ","w","o","r","l","d",":"," ","D","r","a","g","o","n"," ","S","i","g","h","t","e","d">>

\* "say everybody Good Morning"
Ex_SayEverybody == <<"s","a","y"," ","e","v","e","r","y","b","o","d","y"," ","G","o","o","d"," ","M","o","r","n","i","n","g">>

\* "To all: Meet At Dawn"
Ex_ToAll == <<"T","o"," ","a","l","l",":"," ","M","e","e","t"," ","A","t"," ","D","a","w","n">>

\* "everyone I have Unread scrolls"
Ex_EveryoneUnread == <<"e","v","e","r","y","o","n","e"," ","I"," ","h","a","v","e"," ","U","n","r","e","a","d"," ","s","c","r","o","l","l","s">>

\* "tell everyone my messages are empty"
Ex_TellEveryoneMessages == <<"t","e","l","l"," ","e","v","e","r","y","o","n","e"," ","m","y"," ","m","e","s","s","a","g","e","s"," ","a","r","e"," ","e","m","p","t","y">>

\* "Tell Bob that I Am Here"
Ex_TellBobThat == <<"T","e","l","l"," ","B","o","b"," ","t","h","a","t"," ","I"," ","A","m"," ","H","e","r","e">>

\* "send a message to Bob saying Hi There"
Ex_SendMessage == <<"s","e","n","d"," ","a"," ","m","e","s","s","a","g","e"," ","t","o"," ","B","o","b"," ","s","a","y","i","n","g"," ","H","i"," ","T","h","e","r","e">>

\* "let Kira know that Dinner Is Ready"
Ex_LetKnow == <<"l","e","t"," ","K","i","r","a"," ","k","n","o","w"," ","t","h","a","t"," ","D","i","n","n","e","r"," ","I","s"," ","R","e","a","d","y">>

\* "message Bob and say Hello"
Ex_MessageAndSay == <<"m","e","s","s","a","g","e"," ","B","o","b"," ","a","n","d"," ","s","a","y"," ","H","e","l","l","o">>

\* "dm Bob tell them Run"
Ex_DmTellThem == <<"d","m"," ","B","o","b"," ","t","e","l","l"," ","t","h","e","m"," ","R","u","n">>

\* "Message me Me"
Ex_MessageMe == <<"M","e","s","s","a","g","e"," ","m","e"," ","M","e">>

\* "Tell ann An"
Ex_TellAnn == <<"T","e","l","l"," ","a","n","n"," ","A","n">>

\* "WHISPER Kira Meet Me"
Ex_WhisperKira == <<"W","H","I","S","P","E","R"," ","K","i","r","a"," ","M","e","e","t"," ","M","e">>

\* "dms Bob hi"
Ex_DmsBob == <<"d","m","s"," ","B","o","b"," ","h","i">>

\* "dm Hi Hi"
Ex_DmHiHi == <<"d","m"," ","H","i"," ","H","i">>

\* ""
Ex_Empty == <<>>

\* "/q"
Sl_q == <<"/","q">>

\* "/quit"
Sl_quit == <<"/","q","u","i","t">>

\* "/exit"
Sl_exit == <<"/","e","x","i","t">>

\* "/Q"
Sl_Q == <<"/","Q">>

\* "/QUIT"
Sl_QUIT == <<"/","Q","U","I","T">>

\* "/Exit"
Sl_Exit == <<"/","E","x","i","t">>

\* "/look"
Sl_look == <<"/","l","o","o","k">>

\* "/L"
Sl_L == <<"/","L">>

\* "/inventory"
Sl_inventory == <<"/","i","n","v","e","n","t","o","r","y">>

\* "/inv"
Sl_inv == <<"/","i","n","v">>

\* "/i"
Sl_i == <<"/","i">>

\* "/rest"
Sl_rest == <<"/","r","e","s","t">>

\* "/r"
Sl_r == <<"/","r">>

\* "/messages"
Sl_messages == <<"/","m","e","s","s","a","g","e","s">>

\* "/m"
Sl_m == <<"/","m">>

\* "/inbox"
Sl_inbox == <<"/","i","n","b","o","x">>

\* "/chat"
Sl_chat == <<"/","c","h","a","t">>

\* "/c"
Sl_c == <<"/","c">>

\* "/help"
Sl_help == <<"/","h","e","l","p">>

\* "/h"
Sl_h == <<"/","h">>

\* "/?"
Sl_qmark == <<"/","?">>

\* "/message bob hi"
Sl_message_bob == <<"/","m","e","s","s","a","g","e"," ","b","o","b"," ","h","i">>

\* "/foo"
Sl_foo == <<"/","f","o","o">>

\* "/quit now"
Sl_quit_now == <<"/","q","u","i","t"," ","n","o","w">>

\* "/"
Sl_slash == <<"/">>

\* "/mail"
Sl_mail == <<"/","m","a","i","l">>

ExampleLines ==
  {Ex_TellEveryone, Ex_MessageKira, Ex_MessageBob, Ex_WhoMessagedMe,
   Ex_AttackGoblin, Ex_AttackGoblinCaps, Ex_ReadWall, Ex_GlobalHello,
   Ex_GlobalMail, Ex_ShoutWorld, Ex_SayEverybody, Ex_ToAll,
   Ex_EveryoneUnread, Ex_TellEveryoneMessages, Ex_TellBobThat, Ex_SendMessage,
   Ex_LetKnow, Ex_MessageAndSay, Ex_DmTellThem, Ex_MessageMe,
   Ex_TellAnn, Ex_WhisperKira, Ex_DmsBob, Ex_DmHiHi, Ex_Empty}

SlashLines ==
  {Sl_q, Sl_quit, Sl_exit, Sl_Q, Sl_QUIT, Sl_Exit,
   Sl_look, Sl_L, Sl_inventory, Sl_inv, Sl_i, Sl_rest,
   Sl_r, Sl_messages, Sl_m, Sl_inbox, Sl_chat, Sl_c,
   Sl_help, Sl_h, Sl_qmark, Sl_message_bob, Sl_foo, Sl_quit_now,
   Sl_slash, Sl_mail}

\* "Hi"
Wd_Hi == <<"H","i">>

\* the words the generated lines are built from
Words == <<W_tell, W_dm, W_everyone, <<"m","a","i","l">>, Wd_Hi>>

\* the most words a generated line has
MaxWords == 2

RECURSIVE Join(_)
\* " ".join(ws)
Join(ws) ==
  IF Len(ws) = 1 THEN ws[1]
  ELSE ws[1] \o <<" ">> \o Join(Tail(ws))

GeneratedLines ==
  UNION {{Join([i \in 1..n |-> Words[f[i]]]) : f \in [1..n -> 1..Len(Words)]} :
           n \in 1..MaxWords}

\* the lines rich's Prompt.ask hands to the game loop: it returns the
\* response with leading and trailing whitespace removed
Lines == ExampleLines \cup SlashLines \cup GeneratedLines

\* arguments of the parsers called on their own: any text, padded or not
Texts ==
  Lines \cup {<<" ", " ">> \o l : l \in ExampleLines}
        \cup {l \o <<" ">> : l \in ExampleLines}
        \cup {<<"\t">> \o l \o <<" ">> : l \in GeneratedLines}

\* ------------------------------------------------- slash commands

QuitCommands == {<<"/","q","u","i","t">>, <<"/","e","x","i","t">>, <<"/","q">>}

LookCommands == {<<"/","l","o","o","k">>, <<"/","l">>}

InventoryCommands == {<<"/","i","n","v","e","n","t","o","r","y">>, <<"/","i","n","v">>, <<"/","i">>}

RestCommands == {<<"/","r","e","s","t">>, <<"/","r">>}

MessagesCommands == {<<"/","m","e","s","s","a","g","e","s">>, <<"/","m">>, <<"/","i","n","b","o","x">>}

ChatCommands == {<<"/","c","h","a","t">>, <<"/","c">>}

HelpCommands == {<<"/","h","e","l","p">>, <<"/","h">>, <<"/","?">>}

\* ------------------------------------------------- gateway (client.py)

\* How a request ends:
\*   ok            2xx, the JSON body carries the positive payload
\*                 (success true / messages / narrative)
\*   negative      2xx, the JSON body carries the negative payload
\*                 (success false / no messages / an error field)
\*   http_error    a non-2xx status with a JSON body that has none of the
\*                 fields the caller reads
\*   network_error the request itself raises (no connection, no JSON body)
Responses == {"ok", "negative", "http_error", "network_error"}

\* the client methods that call resp.raise_for_status()
ChecksStatus ==
  {"get_session", "start_session", "list_worlds_grouped", "get_campfire",
   "do_action", "look", "rest", "inventory", "create_custom_character",
   "request_cli_auth", "poll_cli_token"}

\* whether client method op raises on response resp
Raises(op, resp) ==
  \/ resp = "network_error"
  \/ resp = "http_error" /\ op \in ChecksStatus

\* self.guest_id or "cli_user"
player_key(cl) == IF cl.guest_id # None THEN cl.guest_id[1] ELSE "cli_user"

Call(op, args) == [op |-> op, args |-> args]

\* client.send_dm(recipient, content)
send_dm(cl, recipient, content) ==
  Call("send_dm", <<player_key(cl), recipient, content>>)

\* client.get_pending_messages()
get_pending_messages(cl) == Call("get_pending_messages", <<player_key(cl)>>)

\* client.get_unread_count()
get_unread_count(cl) == Call("get_unread_count", <<player_key(cl)>>)

\* client.send_global_chat(message)
send_global_chat(cl, message) ==
  Call("send_global_chat", <<player_key(cl), message>>)

\* client.get_global_chat(limit=10)
get_global_chat(cl) == Call("get_global_chat", <<>>)

\* client.do_action(action)
do_action(cl, act) == Call("do_action", <<act>>)

\* client.look() / client.rest() / client.inventory()
look(cl) == Call("look", <<>>)

rest(cl) == Call("rest", <<>>)

inventory(cl) == Call("inventory", <<>>)

\* ------------------------------------------------- rendering

Printed(kind, what) == [kind |-> kind, what |-> what]

\* print_error(message)
print_error(what) == Printed("error", what)

\* print_success(message)
print_success(what) == Printed("success", what)

\* console.print(...) of plain text, print_narrative(...) of a panel
console_print(what) == Printed("plain", what)

print_narrative(what) == Printed("narrative", what)

\* ------------------------------------------------- game loop helpers

\* what a helper of the game loop did: the gateway calls it made and
\* the lines it printed
Did(c, o) == [calls |-> c, output |-> o]

\* _show_messages(client)
_show_messages(cl, resp) ==
  Did(<<get_pending_messages(cl)>>,
      IF Raises("get_pending_messages", resp)
      THEN <<print_error("Failed to load messages")>>
      ELSE IF resp = "ok"
      THEN <<console_print("messages"), console_print("reply hint")>>
      ELSE <<console_print("No unread messages")>>)

\* _show_chat(client)
_show_chat(cl, resp) ==
  Did(<<get_global_chat(cl)>>,
      IF Raises("get_global_chat", resp)
      THEN <<print_error("Failed to load chat")>>
      ELSE IF resp = "ok"
      THEN <<console_print("chat")>>
      ELSE <<console_print("No recent chat messages")>>)

\* _do_action sending the normalised copy of the line instead of the line
_do_action_Lowered(cl, act, resp) ==
  Did(<<do_action(cl, strip(lower(act)))>>,
      IF Raises("do_action", resp)
      THEN <<print_error("Action failed")>>
      ELSE IF resp = "negative"
      THEN <<print_error("result error")>>
      ELSE <<print_narrative("narrative")>>)

\* _do_action(client, action)
_do_action(cl, act, resp) ==
  Did(<<do_action(cl, act)>>,
      IF Raises("do_action", resp)
      THEN <<print_error("Action failed")>>
      ELSE IF resp = "negative"
      THEN <<print_error("result error")>>
      ELSE <<print_narrative("narrative")>>)

\* _do_look(client)
_do_look(cl, resp) ==
  Did(<<look(cl)>>,
      IF Raises("look", resp) THEN <<print_error("Failed")>>
      ELSE <<print_narrative("narrative")>>)

\* _do_inventory(client)
_do_inventory(cl, resp) ==
  Did(<<inventory(cl)>>,
      IF Raises("inventory", resp) THEN <<print_error("Failed")>>
      ELSE <<print_narrative("narrative")>>)

\* _do_rest(client)
_do_rest(cl, resp) ==
  Did(<<rest(cl)>>,
      IF Raises("rest", resp) THEN <<print_error("Failed")>>
      ELSE <<print_narrative("narrative")>>)

\* _handle_chat_intent with the inbox check moved before the DM check
_handle_chat_intent_InboxFirst(cl, act, resp) ==
  LET dm == _parse_dm_intent(act)
      global == _parse_global_chat_intent(act)
  IN  IF _parse_inbox_intent(act)
      THEN [handled |-> TRUE,
            calls |-> _show_messages(cl, resp).calls,
            output |-> _show_messages(cl, resp).output]
      ELSE IF dm # None
      THEN [handled |-> TRUE,
            calls |-> <<send_dm(cl, dm[1].recipient, dm[1].message)>>,
            output |-> <<print_success("Message sent")>>]
      ELSE IF global # None /\ global[1] # <<>>
      THEN [handled |-> TRUE,
            calls |-> <<send_global_chat(cl, global[1])>>,
            output |-> <<print_success("Sent to global chat")>>]
      ELSE [handled |-> FALSE, calls |-> <<>>, output |-> <<>>]

\* _handle_chat_intent with the global-chat check moved before the inbox check
_handle_chat_intent_GlobalFirst(cl, act, resp) ==
  LET dm == _parse_dm_intent(act)
      global == _parse_global_chat_intent(act)
  IN  IF dm # None
      THEN [handled |-> TRUE,
            calls |-> <<send_dm(cl, dm[1].recipient, dm[1].message)>>,
            output |-> <<print_success("Message sent")>>]
      ELSE IF global # None /\ global[1] # <<>>
      THEN [handled |-> TRUE,
            calls |-> <<send_global_chat(cl, global[1])>>,
            output |-> <<print_success("Sent to global chat")>>]
      ELSE IF _parse_inbox_intent(act)
      THEN [handled |-> TRUE,
            calls |-> _show_messages(cl, resp).calls,
            output |-> _show_messages(cl, resp).output]
      ELSE [handled |-> FALSE, calls |-> <<>>, output |-> <<>>]

\* _handle_chat_intent(client, action): handled is the value returned
_handle_chat_intent(cl, act, resp) ==
  LET dm == _parse_dm_intent(act)
      global == _parse_global_chat_intent(act)
  IN  IF dm # None
      THEN [handled |-> TRUE,
            calls |-> <<send_dm(cl, dm[1].recipient, dm[1].message)>>,
            output |-> IF Raises("send_dm", resp)
                       THEN <<print_error("Failed to send")>>
                       ELSE IF resp = "ok"
                       THEN <<print_success("Message sent")>>
                       ELSE <<print_error("Failed to send message")>>]
      ELSE IF _parse_inbox_intent(act)
      THEN [handled |-> TRUE,
            calls |-> _show_messages(cl, resp).calls,
            output |-> _show_messages(cl, resp).output]
      ELSE IF global # None /\ global[1] # <<>>
      THEN [handled |-> TRUE,
            calls |-> <<send_global_chat(cl, global[1])>>,
            output |-> IF Raises("send_global_chat", resp)
                       THEN <<print_error("Failed to send")>>
                       ELSE IF resp = "ok"
                       THEN <<print_success("Sent to global chat")>>
                       ELSE <<print_error("Failed to send")>>]
      ELSE [handled |-> FALSE, calls |-> <<>>, output |-> <<>>]

\* the if-chain without the final test for a leading "/"
Command_NoUnknown(act) ==
  LET action_lower == strip(lower(act))
  IN  IF act = <<>> THEN "empty"
      ELSE IF action_lower \in QuitCommands THEN "quit"
      ELSE IF action_lower \in LookCommands THEN "look"
      ELSE IF action_lower \in InventoryCommands THEN "inventory"
      ELSE IF action_lower \in RestCommands THEN "rest"
      ELSE IF action_lower \in MessagesCommands THEN "messages"
      ELSE IF action_lower \in ChatCommands THEN "chat"
      ELSE IF action_lower \in HelpCommands THEN "help"
      ELSE "text"

\* the if-chain comparing the line as typed, without lowercasing it
Command_CaseSensitive(act) ==
  LET action_lower == strip(act)
  IN  IF act = <<>> THEN "empty"
      ELSE IF action_lower \in QuitCommands THEN "quit"
      ELSE IF action_lower \in LookCommands THEN "look"
      ELSE IF action_lower \in InventoryCommands THEN "inventory"
      ELSE IF action_lower \in RestCommands THEN "rest"
      ELSE IF action_lower \in MessagesCommands THEN "messages"
      ELSE IF action_lower \in ChatCommands THEN "chat"
      ELSE IF action_lower \in HelpCommands THEN "help"
      ELSE IF startswith(action_lower, <<"/">>) THEN "unknown"
      ELSE "text"

\* the branch of _game_loop's if-chain a line takes
Command(act) ==
  LET action_lower == strip(lower(act))
  IN  IF act = <<>> THEN "empty"
      ELSE IF action_lower \in QuitCommands THEN "quit"
      ELSE IF action_lower \in LookCommands THEN "look"
      ELSE IF action_lower \in InventoryCommands THEN "inventory"
      ELSE IF action_lower \in RestCommands THEN "rest"
      ELSE IF action_lower \in MessagesCommands THEN "messages"
      ELSE IF action_lower \in ChatCommands THEN "chat"
      ELSE IF action_lower \in HelpCommands THEN "help"
      ELSE IF startswith(action_lower, <<"/">>) THEN "unknown"
      ELSE "text"

\* ------------------------------------------------- state

VARIABLES
  text,          \* router: the argument the parsers are applied to
  dm_intent,     \* router: result of _parse_dm_intent(text)
  inbox_intent,  \* router: result of _parse_inbox_intent(text)
  global_msg,    \* router: result of _parse_global_chat_intent(text)
  parsed,        \* router: the parsers applied so far
  store,         \* the identity / session store of textlands_cli.config
  client,        \* the TextLandsClient in use: its api_key and guest_id
  calls,         \* gateway calls made by the current command / for the current line
  output,        \* what the current command / line has printed
  action,        \* game loop: the line read
  response,      \* game loop: how the gateway call made for the line ended, if one was made
  pc,            \* where control is
  exit_code,     \* exit code of the last command
  outcome,       \* how the last command ended
  store0,        \* the store as it was when the current command started
  expires_in,    \* login: expires_in of the device authorization
  elapsed,       \* login: time.time() - start_time
  token_result,  \* login: the answer to the last poll, None before it or when it raised
  resume,        \* play: the answer to the resume prompt, if it was asked
  realm,         \* play: the realm argument / the realm selected
  entity_id      \* play: the character selected

routerVars == <<text, dm_intent, inbox_intent, global_msg, parsed>>

loopVars == <<action, response>>

loginVars == <<expires_in, elapsed, token_result>>

playVars == <<resume, realm, entity_id>>

cliVars == <<exit_code, outcome, store0, loginVars, playVars>>

sharedVars == <<store, client, calls, output, pc>>

vars == <<routerVars, loopVars, cliVars, sharedVars>>

\* ------------------------------------------------- intent router on its own

RouterIdle ==
  /\ text = <<>> /\ dm_intent = None /\ inbox_intent = FALSE
  /\ global_msg = None /\ parsed = {}

LoopIdle == action = <<>> /\ response = None

CliIdle ==
  /\ exit_code = 0 /\ outcome = "none" /\ expires_in = 0 /\ elapsed = 0
  /\ token_result = None
  /\ resume = None /\ realm = None /\ entity_id = None

\* the store on the first run: no key is set and get_api_url() answers
\* the default URL
EmptyStore ==
  [api_url |-> "default_url", api_key |-> None, session_token |-> None,
   user_info |-> None, guest_id |-> None, current_session |-> None]

NoClient == [api_key |-> None, guest_id |-> None]

RouterInit ==
  /\ text \in Texts
  /\ dm_intent = None /\ inbox_intent = FALSE /\ global_msg = None
  /\ parsed = {}
  /\ LoopIdle /\ CliIdle
  /\ store = EmptyStore /\ store0 = EmptyStore /\ client = NoClient
  /\ calls = <<>> /\ output = <<>> /\ pc = "router"

ParseDm ==
  /\ pc = "router" /\ "dm" \notin parsed
  /\ dm_intent' = _parse_dm_intent(text)
  /\ parsed' = parsed \cup {"dm"}
  /\ UNCHANGED <<text, inbox_intent, global_msg, loopVars, cliVars, sharedVars>>

ParseInbox ==
  /\ pc = "router" /\ "inbox" \notin parsed
  /\ inbox_intent' = _parse_inbox_intent(text)
  /\ parsed' = parsed \cup {"inbox"}
  /\ UNCHANGED <<text, dm_intent, global_msg, loopVars, cliVars, sharedVars>>

ParseGlobal ==
  /\ pc = "router" /\ "global" \notin parsed
  /\ global_msg' = _parse_global_chat_intent(text)
  /\ parsed' = parsed \cup {"global"}
  /\ UNCHANGED <<text, dm_intent, inbox_intent, loopVars, cliVars, sharedVars>>

RouterNext == ParseDm \/ ParseInbox \/ ParseGlobal

SpecRouter == RouterInit /\ [][RouterNext]_vars

\* ------------------------------------------------- identity / session store

\* textlands_cli.config: one get / set / clear per key of the store
set_api_url(st, v) == [st EXCEPT !.api_url = v]

set_api_key(st, v) == [st EXCEPT !.api_key = Some(v)]

clear_api_key(st) == [st EXCEPT !.api_key = None]

set_session_token(st, v) == [st EXCEPT !.session_token = Some(v)]

clear_session_token(st) == [st EXCEPT !.session_token = None]

set_user_info(st, v) == [st EXCEPT !.user_info = Some(v)]

clear_user_info(st) == [st EXCEPT !.user_info = None]

set_guest_id(st, v) == [st EXCEPT !.guest_id = Some(v)]

set_current_session(st, v) == [st EXCEPT !.current_session = Some(v)]

clear_current_session(st) == [st EXCEPT !.current_session = None]

\* the values f"cli_{uuid.uuid4().hex[:16]}" can take
FreshGuestIds == {"cli_a", "cli_b"}

\* get_client(): whether it generates a guest id
GeneratesGuestId(st) ==
  st.session_token = None /\ st.api_key = None /\ st.guest_id = None

\* get_client() generating a guest id whether or not the store has one
get_client_store_Always(st, fresh) ==
  IF st.session_token = None /\ st.api_key = None
  THEN set_guest_id(st, fresh) ELSE st

\* get_client(): the store it leaves behind
get_client_store(st, fresh) ==
  IF GeneratesGuestId(st) THEN set_guest_id(st, fresh) ELSE st

\* get_client() passing the stored API key along with a stored session
get_client_KeepsApiKey(st, fresh) ==
  IF st.session_token # None
  THEN LET player_id == IF st.user_info # None
                        THEN Some(st.user_info[1].user_id) ELSE None
       IN  [api_key |-> st.api_key,
            guest_id |-> IF player_id # None THEN player_id ELSE st.guest_id]
  ELSE [api_key |-> st.api_key,
        guest_id |-> get_client_store(st, fresh).guest_id]

\* get_client(): the client it returns
get_client(st, fresh) ==
  IF st.session_token # None
  THEN LET player_id == IF st.user_info # None
                        THEN Some(st.user_info[1].user_id) ELSE None
       IN  [api_key |-> None,
            guest_id |-> IF player_id # None THEN player_id ELSE st.guest_id]
  ELSE [api_key |-> st.api_key,
        guest_id |-> get_client_store(st, fresh).guest_id]

\* ------------------------------------------------- game loop (_game_loop)

\* the session start-session answers with for a realm and a character
Session(world_id, character_id) ==
  [realm_id |-> Some(world_id), realm_name |-> Some("realm name"),
   character_id |-> Some(character_id), character_name |-> Some("character name")]

StoredSession == Session(1, 1)

StoredUser ==
  [user_id |-> "user1", email |-> "kira@example.com", display_name |-> "Kira"]

\* stores the play command enters the loop with: a guest, a legacy API
\* key, a device-code account
LoopStores ==
  {[EmptyStore EXCEPT !.guest_id = Some("cli_a"),
                      !.current_session = Some(StoredSession)],
   [EmptyStore EXCEPT !.api_key = Some("key1"),
                      !.current_session = Some(StoredSession)],
   [EmptyStore EXCEPT !.session_token = Some("token1"),
                      !.user_info = Some(StoredUser),
                      !.guest_id = Some("user1"),
                      !.current_session = Some(StoredSession)]}

LoopInit ==
  /\ store \in LoopStores
  /\ client = get_client(store, "cli_a")
  /\ store0 = store
  /\ pc = "loop_entry"
  /\ calls = <<>> /\ output = <<>>
  /\ RouterIdle /\ LoopIdle /\ CliIdle

\* lines 639-645: the unread count shown on entry, failures ignored
LoopEnter ==
  /\ pc = "loop_entry"
  /\ \E resp \in Responses :
       /\ response' = Some(resp)
       /\ calls' = <<get_unread_count(client)>>
       /\ output' = IF ~Raises("get_unread_count", resp) /\ resp = "ok"
                    THEN <<console_print("unread notice")>> ELSE <<>>
  /\ pc' = "loop_top"
  /\ UNCHANGED <<action, store, client, routerVars, cliVars>>

\* line 649: the prompt is shown and the loop blocks in Prompt.ask
ShowPrompt ==
  /\ pc = "loop_top"
  /\ pc' = "prompt"
  /\ action' = <<>> /\ response' = None /\ calls' = <<>> /\ output' = <<>>
  /\ UNCHANGED <<store, client, routerVars, cliVars>>

\* line 649: Prompt.ask returns a line
ReadLine ==
  /\ pc = "prompt"
  /\ \E l \in Lines : action' = l
  /\ pc' = "dispatch"
  /\ UNCHANGED <<response, calls, output, store, client, routerVars, cliVars>>

\* lines 650-652: KeyboardInterrupt / EOFError while reading
Interrupt ==
  /\ pc = "prompt"
  /\ output' = <<console_print("newline")>>
  /\ pc' = "loop_exited"
  /\ UNCHANGED <<loopVars, calls, store, client, routerVars, cliVars>>

\* lines 654-655
EmptyInput ==
  /\ pc = "dispatch" /\ Command(action) = "empty"
  /\ pc' = "loop_top"
  /\ UNCHANGED <<loopVars, calls, output, store, client, routerVars, cliVars>>

\* lines 660-662
Quit ==
  /\ pc = "dispatch" /\ Command(action) = "quit"
  /\ output' = <<print_success("Farewell, adventurer!")>>
  /\ pc' = "loop_exited"
  /\ UNCHANGED <<loopVars, calls, store, client, routerVars, cliVars>>

\* a handler after which a failed gateway call ends the loop
Continue_StopOnFailure(did, resp) ==
  /\ response' = resp
  /\ calls' = did.calls
  /\ output' = did.output
  /\ pc' = IF resp = Some("network_error") THEN "loop_exited" ELSE "loop_top"
  /\ UNCHANGED <<action, store, client, routerVars, cliVars>>

\* a handler has made its gateway call, if any, with answer resp and goes
\* on to the next line
Continue(did, resp) ==
  /\ response' = resp
  /\ calls' = did.calls
  /\ output' = did.output
  /\ pc' = "loop_top"
  /\ UNCHANGED <<action, store, client, routerVars, cliVars>>

\* lines 664-666
Look ==
  /\ pc = "dispatch" /\ Command(action) = "look"
  /\ \E resp \in Responses : Continue(_do_look(client, resp), Some(resp))

\* lines 668-670
Inventory ==
  /\ pc = "dispatch" /\ Command(action) = "inventory"
  /\ \E resp \in Responses : Continue(_do_inventory(client, resp), Some(resp))

\* lines 672-674
Rest ==
  /\ pc = "dispatch" /\ Command(action) = "rest"
  /\ \E resp \in Responses : Continue(_do_rest(client, resp), Some(resp))

\* lines 676-678
Messages ==
  /\ pc = "dispatch" /\ Command(action) = "messages"
  /\ \E resp \in Responses : Continue(_show_messages(client, resp), Some(resp))

\* lines 680-682
Chat ==
  /\ pc = "dispatch" /\ Command(action) = "chat"
  /\ \E resp \in Responses : Continue(_show_chat(client, resp), Some(resp))

\* lines 684-686
Help ==
  /\ pc = "dispatch" /\ Command(action) = "help"
  /\ Continue(Did(<<>>, <<console_print("help")>>), None)

\* lines 688-690
UnknownCommand ==
  /\ pc = "dispatch" /\ Command(action) = "unknown"
  /\ Continue(Did(<<>>, <<print_error("Unknown command")>>), None)

\* lines 693-694
ChatIntent ==
  /\ pc = "dispatch" /\ Command(action) = "text"
  /\ \E resp \in Responses :
       LET chat == _handle_chat_intent(client, action, resp)
       IN  /\ chat.handled
           /\ Continue(Did(chat.calls, chat.output), Some(resp))

\* line 697
GameAction ==
  /\ pc = "dispatch" /\ Command(action) = "text"
  /\ \E resp \in Responses :
       /\ ~_handle_chat_intent(client, action, resp).handled
       /\ Continue(_do_action(client, action, resp), Some(resp))

LoopNext ==
  \/ LoopEnter \/ ShowPrompt \/ ReadLine \/ Interrupt
  \/ EmptyInput \/ Quit \/ Look \/ Inventory \/ Rest \/ Messages \/ Chat
  \/ Help \/ UnknownCommand \/ ChatIntent \/ GameAction

SpecLoop == LoopInit /\ [][LoopNext]_vars

\* ------------------------------------------------- commands (login, logout)

\* pc is "shell" between two invocations of the CLI and "done" when a
\* command has just ended; in between it names the step the command is at.

\* "", "kira", "kira@example.com"
Emails ==
  {<<>>, <<"k","i","r","a">>,
   <<"k","i","r","a","@","e","x","a","m","p","l","e",".","c","o","m">>}

ApiKeys == {"key1", "key2"}

\* the largest expires_in the service answers with
MaxExpiresIn == 10

\* the longest a poll request takes, on top of the sleep before it
MaxLatency == 0

\* time.sleep(2)
SleepInterval == 2

\* the answers of poll-device-auth: a status and, when authorized, any of
\* the four fields of the account
TokenResults ==
  [status : {"pending", "expired"}, session_token : {None}, user_id : {None},
   email : {None}, display_name : {None}]
  \cup
  [status : {"authorized"}, session_token : {None, Some("token1")},
   user_id : {None, Some("user1")}, email : {None, Some("kira@example.com")},
   display_name : {None, Some("Kira")}]

\* the response has every key the authorized branch reads
HasAllFields(tr) ==
  /\ tr.session_token # None /\ tr.user_id # None
  /\ tr.email # None /\ tr.display_name # None

Init ==
  /\ store = EmptyStore /\ store0 = EmptyStore
  /\ client = NoClient
  /\ pc = "shell"
  /\ calls = <<>> /\ output = <<>>
  /\ RouterIdle /\ LoopIdle /\ CliIdle

\* a command ends: typer.Exit(code) or a plain return; pc is "shell"
\* between two invocations, "done" when a command has just ended
Finish(how, code) ==
  /\ outcome' = how
  /\ exit_code' = code
  /\ pc' = "done"

\* the legacy login without the test of is_guest
LoginWithKey_NoGuestTest ==
  /\ pc = "shell"
  /\ \E api_key \in ApiKeys, resp \in Responses :
       /\ store0' = store
       /\ client' = [api_key |-> Some(api_key), guest_id |-> None]
       /\ calls' = <<Call("get_session", <<>>)>>
       /\ IF Raises("get_session", resp)
          THEN /\ output' = <<print_error("Login failed")>>
               /\ store' = store
               /\ Finish("key_login_failed", 1)
          ELSE /\ output' = <<print_success("Logged in")>>
               /\ store' = set_api_key(store, api_key)
               /\ Finish(IF resp = "negative" THEN "invalid_key" ELSE "key_logged_in", 0)
  /\ UNCHANGED <<loginVars, playVars, routerVars, loopVars>>

\* lines 135-148: login --key
LoginWithKey ==
  /\ pc = "shell"
  /\ \E api_key \in ApiKeys, resp \in Responses :
       /\ store0' = store
       /\ client' = [api_key |-> Some(api_key), guest_id |-> None]
       /\ calls' = <<Call("get_session", <<>>)>>
       /\ IF Raises("get_session", resp)
          THEN /\ output' = <<print_error("Login failed")>>
               /\ store' = store
               /\ Finish("key_login_failed", 1)
          ELSE IF resp = "negative"
          THEN \* is_guest: typer.Exit is an Exception and is caught as well
               /\ output' = <<print_error("Invalid API key"),
                              print_error("Login failed")>>
               /\ store' = store
               /\ Finish("invalid_key", 1)
          ELSE /\ output' = <<print_success("Logged in")>>
               /\ store' = set_api_key(store, api_key)
               /\ Finish("key_logged_in", 0)
  /\ UNCHANGED <<loginVars, playVars, routerVars, loopVars>>

\* lines 150-173: the email is validated, the device authorization is
\* requested and the polling loop is entered
LoginStart ==
  /\ pc = "shell"
  /\ \E email \in Emails, fresh \in FreshGuestIds, resp \in Responses,
        exp \in 1..MaxExpiresIn :
       /\ store0' = store
       /\ token_result' = None
       /\ elapsed' = 0
       /\ IF email = <<>> \/ ~contains(email, <<"@">>)
          THEN /\ output' = <<print_error("Valid email is required")>>
               /\ calls' = <<>>
               /\ UNCHANGED <<store, client, expires_in>>
               /\ Finish("invalid_email", 1)
          ELSE /\ store' = get_client_store(store, fresh)
               /\ client' = get_client(store, fresh)
               /\ calls' = <<Call("request_cli_auth", <<email>>)>>
               /\ IF resp # "ok"
                  THEN /\ output' = <<print_error("Login failed")>>
                       /\ UNCHANGED expires_in
                       /\ Finish("login_failed", 1)
                  ELSE /\ output' = <<console_print("Check your email")>>
                       /\ expires_in' = exp
                       /\ pc' = "login_polling"
                       /\ UNCHANGED <<outcome, exit_code>>
  /\ UNCHANGED <<playVars, routerVars, loopVars>>

\* the authorized branch without the update of the guest id
login_store_authorized_NoGuestId(st, tr) ==
  IF tr.session_token = None THEN st
  ELSE IF tr.user_id = None \/ tr.email = None \/ tr.display_name = None
  THEN set_session_token(st, tr.session_token[1])
  ELSE set_user_info(
         set_session_token(st, tr.session_token[1]),
         [user_id |-> tr.user_id[1], email |-> tr.email[1],
          display_name |-> tr.display_name[1]])

\* lines 180-187: what the authorized branch has written when it returns
\* or when a missing key raises KeyError
login_store_authorized(st, tr) ==
  IF tr.session_token = None THEN st
  ELSE IF tr.user_id = None \/ tr.email = None \/ tr.display_name = None
  THEN set_session_token(st, tr.session_token[1])
  ELSE set_guest_id(
         set_user_info(
           set_session_token(st, tr.session_token[1]),
           [user_id |-> tr.user_id[1], email |-> tr.email[1],
            display_name |-> tr.display_name[1]]),
         tr.user_id[1])

\* lines 174-196: one iteration of the polling loop: the loop test, the
\* sleep, the poll and the branch on its status
LoginPoll ==
  /\ pc = "login_polling"
  /\ elapsed < expires_in
  /\ \E latency \in 0..MaxLatency, resp \in {"ok", "network_error"},
        tr \in TokenResults :
       /\ elapsed' = elapsed + SleepInterval + latency
       /\ calls' = Append(calls, Call("poll_cli_token", <<>>))
       /\ IF Raises("poll_cli_token", resp)
          THEN /\ token_result' = None
               /\ output' = Append(output, print_error("Login failed"))
               /\ store' = store
               /\ Finish("login_failed", 1)
          ELSE /\ token_result' = Some(tr)
               /\ CASE tr.status = "authorized" ->
                         /\ store' = login_store_authorized(store, tr)
                         /\ IF HasAllFields(tr)
                            THEN /\ output' = Append(output, print_success("Logged in"))
                                 /\ Finish("logged_in", 0)
                            ELSE /\ output' = Append(output, print_error("Login failed"))
                                 /\ Finish("login_failed", 1)
                    [] tr.status = "expired" ->
                         /\ store' = store
                         /\ output' = output \o <<print_error("Authorization expired"),
                                                  print_error("Login failed")>>
                         /\ Finish("expired", 1)
                    [] tr.status = "pending" ->
                         /\ store' = store
                         /\ UNCHANGED <<output, pc, outcome, exit_code>>
  /\ UNCHANGED <<client, store0, expires_in, playVars, routerVars, loopVars>>

\* lines 174, 198-200: the loop test fails
LoginTimeout ==
  /\ pc = "login_polling"
  /\ ~(elapsed < expires_in)
  /\ output' = output \o <<print_error("Authorization timed out"),
                           print_error("Login failed")>>
  /\ Finish("timed_out", 1)
  /\ UNCHANGED <<store, client, calls, store0, loginVars, playVars,
                 routerVars, loopVars>>

\* logout that forgets the guest id as well
Logout_ClearsGuestId ==
  /\ pc = "shell"
  /\ store0' = store
  /\ store' = [clear_current_session(clear_user_info(
                 clear_session_token(clear_api_key(store))))
               EXCEPT !.guest_id = None]
  /\ calls' = <<>>
  /\ output' = <<print_success("Logged out")>>
  /\ Finish("logged_out", 0)
  /\ UNCHANGED <<client, loginVars, playVars, routerVars, loopVars>>

\* lines 207-214
Logout ==
  /\ pc = "shell"
  /\ store0' = store
  /\ store' = clear_current_session(clear_user_info(
                 clear_session_token(clear_api_key(store))))
  /\ calls' = <<>>
  /\ output' = <<print_success("Logged out")>>
  /\ Finish("logged_out", 0)
  /\ UNCHANGED <<client, loginVars, playVars, routerVars, loopVars>>

\* ------------------------------------------------- commands (config)

\* the --api-url option, if given
ApiUrls == {None, Some("custom_url")}

\* lines 792-807
Config ==
  /\ pc = "shell"
  /\ \E api_url \in ApiUrls, show \in BOOLEAN :
       IF show
       THEN /\ output' = <<console_print("API URL"), console_print("Authenticated")>>
                         \o IF store.guest_id # None
                            THEN <<console_print("Guest ID")>> ELSE <<>>
            /\ store' = store
       ELSE IF api_url # None
       THEN /\ output' = <<print_success("API URL set")>>
            /\ store' = set_api_url(store, api_url[1])
       ELSE /\ output' = <<>>
            /\ store' = store
  /\ store0' = store
  /\ calls' = <<>>
  /\ Finish("configured", 0)
  /\ UNCHANGED <<client, loginVars, playVars, routerVars, loopVars>>

\* ------------------------------------------------- commands (status)

\* lines 217-249
Status ==
  /\ pc = "shell"
  /\ \E fresh \in FreshGuestIds, resp \in Responses :
       LET who == IF store.user_info # None
                  THEN console_print("Logged in as")
                  ELSE console_print("Playing as guest")
       IN  /\ store' = get_client_store(store, fresh)
           /\ client' = get_client(store, fresh)
           /\ calls' = <<Call("get_session", <<>>)>>
           /\ IF Raises("get_session", resp)
              THEN /\ output' = <<who, print_error("Failed to get status")>>
                   /\ Finish("status_failed", 1)
              ELSE /\ output' = <<who, console_print("Session Status")>>
                   /\ Finish("status_shown", 0)
  /\ store0' = store
  /\ UNCHANGED <<loginVars, playVars, routerVars, loopVars>>

\* ------------------------------------------------- commands (play)

\* the most realms list_worlds_grouped offers, the most characters a
\* campfire offers
MaxRealms == 1

MaxCharacters == 1

\* the realm given on the command line, if any
RealmArguments == {None, Some(1)}

\* result.get("session", {}) of an answer without a session
NoSession ==
  [realm_id |-> None, realm_name |-> None,
   character_id |-> None, character_name |-> None]

\* the stored session is one play offers to resume
Resumable(current) == current # None /\ current[1].realm_id # None

\* play that forgets the stored session when the resume is declined
PlayStart_ClearOnDecline ==
  /\ pc = "shell"
  /\ \E arg \in RealmArguments, fresh \in FreshGuestIds, answer \in {"y", "n"} :
       LET current == store.current_session
       IN  /\ client' = get_client(store, fresh)
           /\ IF Resumable(current) /\ arg = None
              THEN /\ resume' = Some(answer)
                   /\ realm' = None
                   /\ store' = IF answer = "y" THEN get_client_store(store, fresh)
                               ELSE clear_current_session(get_client_store(store, fresh))
                   /\ pc' = IF answer = "y" THEN "game_loop" ELSE "select_realm"
              ELSE /\ resume' = None
                   /\ realm' = arg
                   /\ store' = get_client_store(store, fresh)
                   /\ pc' = IF arg = None THEN "select_realm" ELSE "campfire"
  /\ store0' = store
  /\ calls' = <<>> /\ output' = <<>>
  /\ UNCHANGED <<entity_id, exit_code, outcome, loginVars, routerVars, loopVars>>

\* lines 353-370: the client is built and a stored session is offered
PlayStart ==
  /\ pc = "shell"
  /\ \E arg \in RealmArguments, fresh \in FreshGuestIds, answer \in {"y", "n"} :
       LET current == store.current_session
       IN  /\ store' = get_client_store(store, fresh)
           /\ client' = get_client(store, fresh)
           /\ IF Resumable(current) /\ arg = None
              THEN /\ resume' = Some(answer)
                   /\ realm' = None
                   /\ pc' = IF answer = "y" THEN "game_loop" ELSE "select_realm"
              ELSE /\ resume' = None
                   /\ realm' = arg
                   /\ pc' = IF arg = None THEN "select_realm" ELSE "campfire"
  /\ store0' = store
  /\ calls' = <<>> /\ output' = <<>>
  /\ UNCHANGED <<entity_id, exit_code, outcome, loginVars, routerVars, loopVars>>

\* lines 367-370 and _select_realm (418-453)
SelectRealm ==
  /\ pc = "select_realm"
  /\ calls' = Append(calls, Call("list_worlds_grouped", <<>>))
  /\ \E resp \in Responses, n \in 0..MaxRealms, choice \in 0..(MaxRealms + 1) :
       IF Raises("list_worlds_grouped", resp)
       THEN /\ output' = Append(output, print_error("Failed to list realms"))
            /\ realm' = None
            /\ Finish("play_returned", 0)
       ELSE IF resp = "negative" \/ n = 0
       THEN /\ output' = Append(output, print_error("No realms available"))
            /\ realm' = None
            /\ Finish("play_returned", 0)
       ELSE IF choice < 1 \/ choice > n
       THEN /\ output' = Append(output, print_error("Invalid choice"))
            /\ realm' = None
            /\ Finish("play_returned", 0)
       ELSE /\ output' = output
            /\ realm' = Some(choice)
            /\ pc' = "campfire"
            /\ UNCHANGED <<outcome, exit_code>>
  /\ UNCHANGED <<store, client, store0, resume, entity_id, loginVars, routerVars, loopVars>>

\* _select_character (456-498): the character chosen, None when the
\* selection is given up; choice is the number entered, custom what
\* create_custom_character answers
_select_character(n, can_create_custom, choice, concept, custom) ==
  IF can_create_custom /\ choice = n + 1
  THEN IF ~concept \/ custom # "ok" THEN None ELSE Some(0)
  ELSE IF choice < 1 \/ choice > n THEN None
  ELSE Some(choice)

\* lines 372-389: the campfire is loaded and a character is selected
Campfire ==
  /\ pc = "campfire"
  /\ \E resp \in {"ok", "http_error", "network_error"}, n \in 0..MaxCharacters,
        can_create_custom \in BOOLEAN, choice \in 0..(MaxCharacters + 1),
        concept \in BOOLEAN, custom \in Responses :
       IF Raises("get_campfire", resp)
       THEN /\ calls' = Append(calls, Call("get_campfire", <<realm[1]>>))
            /\ output' = Append(output, print_error("Failed to load realm"))
            /\ entity_id' = None
            /\ Finish("play_failed", 1)
       ELSE LET custom_chosen == can_create_custom /\ choice = n + 1
                chosen == _select_character(n, can_create_custom, choice,
                                            concept, custom)
            IN  /\ calls' = calls \o <<Call("get_campfire", <<realm[1]>>)>>
                       \o IF custom_chosen /\ concept
                          THEN <<Call("create_custom_character", <<realm[1]>>)>>
                          ELSE <<>>
                /\ output' = output \o <<console_print("campfire")>>
                       \o IF custom_chosen /\ concept /\ Raises("create_custom_character", custom)
                          THEN <<print_error("Failed to create character")>>
                          ELSE IF ~custom_chosen /\ chosen = None
                          THEN <<print_error("Invalid choice")>>
                          ELSE <<>>
                /\ entity_id' = chosen
                /\ IF chosen = None
                   THEN Finish("play_returned", 0)
                   ELSE /\ pc' = "start_session"
                        /\ UNCHANGED <<outcome, exit_code>>
  /\ UNCHANGED <<store, client, store0, resume, realm, loginVars, routerVars, loopVars>>

\* lines 391-412: the session is started and stored
StartSession ==
  /\ pc = "start_session"
  /\ calls' = Append(calls, Call("start_session", <<realm[1], entity_id[1]>>))
  /\ \E resp \in Responses :
       IF Raises("start_session", resp)
       THEN /\ output' = Append(output, print_error("Failed to start session"))
            /\ store' = store
            /\ Finish("play_failed", 1)
       ELSE /\ output' = Append(output, print_success("Your adventure begins"))
            /\ store' = set_current_session(store,
                          IF resp = "ok" THEN Session(realm[1], entity_id[1])
                          ELSE NoSession)
            /\ pc' = "game_loop"
            /\ UNCHANGED <<outcome, exit_code>>
  /\ UNCHANGED <<client, store0, playVars, loginVars, routerVars, loopVars>>

\* lines 363-364 and 415: _game_loop(client) runs and returns.  The loop
\* itself is SpecLoop; it writes nothing to the store.
GameLoopReturns ==
  /\ pc = "game_loop"
  /\ Finish("played", 0)
  /\ UNCHANGED <<store, client, calls, output, store0, playVars, loginVars,
                 routerVars, loopVars>>

\* the process of the command ends; only the store outlives it
ProcessExit ==
  /\ pc = "done"
  /\ pc' = "shell"
  /\ store0' = store
  /\ client' = NoClient
  /\ calls' = <<>> /\ output' = <<>>
  /\ exit_code' = 0 /\ outcome' = "none"
  /\ expires_in' = 0 /\ elapsed' = 0 /\ token_result' = None
  /\ resume' = None /\ realm' = None /\ entity_id' = None
  /\ UNCHANGED <<store, routerVars, loopVars>>

Next ==
  \/ LoginWithKey \/ LoginStart \/ LoginPoll \/ LoginTimeout \/ Logout
  \/ Config \/ Status
  \/ PlayStart \/ SelectRealm \/ Campfire \/ StartSession \/ GameLoopReturns
  \/ ProcessExit

Spec == Init /\ [][Next]_vars

\* ------------------------------------------------- properties: intent routing

\* a non-empty line that does not start with "/"
IsTextLine(a) == a # <<>> /\ a[1] # "/"

\* a DM pattern matches the line
MatchesDm(a) == FirstMatching(dm_patterns, strip(lower(a))) # 0

\* the lowercased line contains an inbox phrase
HasInboxVocabulary(a) ==
  \E p \in 1..Len(inbox_phrases) : contains(strip(lower(a)), inbox_phrases[p])

\* a global-broadcast pattern matches the line
MatchesGlobal(a) == FirstMatching(global_patterns, strip(lower(a))) # 0

\* the number of whitespace characters the text starts with
LeadingSpaces(a) ==
  CHOOSE n \in 0..Len(a) :
    /\ \A i \in 1..n : IsSpace(a[i])
    /\ n = Len(a) \/ ~IsSpace(a[n + 1])

\* the characters of the text, in their original case, that group n of the
\* first matching pattern covers
OriginalGroup(patterns, a, n) ==
  LET text_lower == strip(lower(a))
      m == re_match(patterns[FirstMatching(patterns, text_lower)], text_lower)
  IN  SubSeq(a, LeadingSpaces(a) + m[1][n][1] + 1, LeadingSpaces(a) + m[1][n][2])

\* the line has been handled: the loop is back at its top or has been left
Handled == pc \in {"loop_top", "loop_exited"}

\* the gateway operation the priority order DM, inbox, global, gameplay
\* picks for a line
DispatchFor(a) ==
  IF MatchesDm(a) THEN "send_dm"
  ELSE IF HasInboxVocabulary(a) THEN "get_pending_messages"
  ELSE IF MatchesGlobal(a) THEN "send_global_chat"
  ELSE "do_action"

\* C1: every non-empty line that does not start with "/" is answered by
\* exactly one gateway call, the one the first matching check in the order
\* DM, inbox, global, gameplay selects, and the loop goes on.
C1_ExactlyOneDispatch ==
  (Handled /\ IsTextLine(action)) =>
    /\ pc = "loop_top"
    /\ Len(calls) = 1
    /\ calls[1].op = DispatchFor(action)

\* C1 witness: a DM line that also holds inbox vocabulary was sent as a DM.
C1_Witness ==
  /\ pc = "loop_top" /\ action = Ex_MessageBob
  /\ Len(calls) = 1 /\ calls[1].op = "send_dm"

\* C2: every line that matches a global-broadcast pattern (and holds no
\* inbox vocabulary) is sent to global chat with its body in the original
\* case; "tell everyone Hello World" is sent as "Hello World".
C2_GlobalBroadcast ==
  (Handled /\ IsTextLine(action) /\ MatchesGlobal(action)
     /\ ~HasInboxVocabulary(action)) =>
    calls = <<send_global_chat(client, OriginalGroup(global_patterns, action, 1))>>

\* C3: for every text a DM pattern matches, _parse_dm_intent returns the
\* first captured word as recipient and, as body, the characters of the
\* text that the body group covers, in their original case.
C3_DmBodyOriginalCase ==
  ("dm" \in parsed /\ MatchesDm(text)) =>
    dm_intent = Some([recipient |-> lower(OriginalGroup(dm_patterns, text, 1)),
                      message |-> OriginalGroup(dm_patterns, text, 2)])

\* C4: a line with inbox vocabulary that matches no DM pattern only fetches
\* the pending messages, also when a global-broadcast pattern matches it;
\* a line that matches a DM pattern is sent as a DM, also when it holds
\* inbox vocabulary, to the lowercased first captured word.
C4_InboxAfterDm ==
  (Handled /\ IsTextLine(action)) =>
    /\ (HasInboxVocabulary(action) /\ ~MatchesDm(action)) =>
         calls = <<get_pending_messages(client)>>
    /\ MatchesDm(action) =>
         /\ Len(calls) = 1 /\ calls[1].op = "send_dm"
         /\ calls[1].args[2] = lower(OriginalGroup(dm_patterns, action, 1))

\* C4 witness: a line that matches a global-broadcast pattern and holds
\* inbox vocabulary fetched the pending messages.
C4_Witness ==
  /\ pc = "loop_top" /\ action = Ex_EveryoneUnread
  /\ MatchesGlobal(action) /\ HasInboxVocabulary(action) /\ ~MatchesDm(action)
  /\ calls = <<get_pending_messages(client)>>

\* C5: a line that matches no chat pattern and does not start with "/" goes
\* to the gameplay endpoint with exactly the text that was read.
C5_GameplayVerbatim ==
  (Handled /\ IsTextLine(action) /\ ~MatchesDm(action)
     /\ ~HasInboxVocabulary(action) /\ ~MatchesGlobal(action)) =>
    /\ pc = "loop_top"
    /\ calls = <<Call("do_action", <<action>>)>>

\* C5 witness: a mixed-case line was forwarded as typed.
C5_Witness ==
  /\ pc = "loop_top" /\ action = Ex_AttackGoblinCaps
  /\ calls = <<Call("do_action", <<Ex_AttackGoblinCaps>>)>>

\* ------------------------------------------------- properties: slash commands

RecognizedCommands ==
  UNION {QuitCommands, LookCommands, InventoryCommands, RestCommands,
         MessagesCommands, ChatCommands, HelpCommands}

\* C6: a line that starts with "/" and is no recognized command prints the
\* unknown-command error, makes no gateway call and the loop goes on.
C6_UnknownCommand ==
  (Handled /\ action # <<>> /\ action[1] = "/"
     /\ strip(lower(action)) \notin RecognizedCommands) =>
    /\ pc = "loop_top"
    /\ calls = <<>>
    /\ output = <<print_error("Unknown command")>>

\* C6 witness: "/message bob hi" was rejected.
C6_Witness ==
  /\ pc = "loop_top" /\ action = Sl_message_bob
  /\ output = <<print_error("Unknown command")>>

\* C7: /q, /quit and /exit, in any letter case, all leave the loop the same
\* way: the farewell is printed, no gateway call is made, the store is as
\* it was and the loop has been left, so no further line is read.
C7_QuitAliases ==
  (Handled /\ lower(action) \in {Sl_q, Sl_quit, Sl_exit}) =>
    /\ pc = "loop_exited"
    /\ output = <<print_success("Farewell, adventurer!")>>
    /\ calls = <<>>
    /\ store = store0

\* C7 witness: the loop was left through an upper-case spelling.
C7_Witness ==
  /\ pc = "loop_exited" /\ action = Sl_QUIT
  /\ output = <<print_success("Farewell, adventurer!")>>

\* ------------------------------------------------- properties: device-code login

\* the status of the last poll, "none" when there is none
LastStatus == IF token_result = None THEN "none" ELSE token_result[1].status

\* the store holds what it held when the command started, but for a guest
\* id that get_client generated because the store had no identity at all
OnlyGuestIdGenerated ==
  IF GeneratesGuestId(store0)
  THEN /\ store.guest_id # None /\ store.guest_id[1] \in FreshGuestIds
       /\ store = [store0 EXCEPT !.guest_id = store.guest_id]
  ELSE store = store0

\* the authorized answer has been persisted and the command has succeeded
Authenticated(tr) ==
  /\ pc = "done" /\ outcome = "logged_in" /\ exit_code = 0
  /\ store.session_token = tr.session_token
  /\ store.user_info = Some([user_id |-> tr.user_id[1], email |-> tr.email[1],
                             display_name |-> tr.display_name[1]])
  /\ store.guest_id = tr.user_id

\* C8 as stated: an authorized poll always ends Authenticated, and a
\* pending poll persists nothing and is always followed by another
\* iteration of the loop.
C8_Original ==
  /\ LastStatus = "authorized" => Authenticated(token_result[1])
  /\ LastStatus = "pending" =>
       /\ OnlyGuestIdGenerated
       /\ pc = "login_polling" /\ elapsed < expires_in

\* C8 amended: an authorized poll that carries session_token, user_id,
\* email and display_name ends Authenticated (all of them persisted, the
\* guest id set to the user id, no further poll, exit code 0); a pending
\* poll persists nothing and goes back to the loop test, after which the
\* login either polls again or, once elapsed >= expires_in, times out.
C8_AuthorizedOrPending ==
  /\ (LastStatus = "authorized" /\ HasAllFields(token_result[1])) =>
       Authenticated(token_result[1])
  /\ LastStatus = "pending" =>
       /\ OnlyGuestIdGenerated
       /\ \/ pc = "login_polling"
          \/ pc = "done" /\ outcome = "timed_out" /\ elapsed >= expires_in

\* C8 witness: expires_in = 10 and polls at 2, 4 and 6 answered pending,
\* pending, authorized.
C8_Witness ==
  /\ pc = "done" /\ outcome = "logged_in"
  /\ expires_in = 10 /\ elapsed = 6 /\ Len(calls) = 4
  /\ store.session_token = Some("token1") /\ store.guest_id = Some("user1")

\* the login printed the given error
PrintedError(what) == \E i \in 1..Len(output) : output[i] = print_error(what)

\* the device-code login ended expired or timed out, with its error and a
\* nonzero exit code
LoginExpiredOrTimedOut ==
  /\ pc = "done"
  /\ \/ outcome = "expired" /\ PrintedError("Authorization expired")
     \/ outcome = "timed_out" /\ PrintedError("Authorization timed out")
  /\ exit_code # 0

\* C9 as stated: a login that ends expired or timed out exits nonzero with
\* its error and leaves every key of the store as it was.
C9_Original ==
  (pc = "done" /\ outcome \in {"expired", "timed_out"}) =>
    /\ LoginExpiredOrTimedOut
    /\ store = store0

\* C9 amended: a login that ends expired or timed out exits nonzero with
\* its error and leaves session_token, user_info, api_key and
\* current_session as they were; guest_id is as it was too, unless the
\* store held no guest_id, no api_key and no session_token, in which case
\* it now holds the guest id get_client generated.
C9_FailedLoginPersistsNoCredentials ==
  (pc = "done" /\ outcome \in {"expired", "timed_out"}) =>
    /\ LoginExpiredOrTimedOut
    /\ OnlyGuestIdGenerated

\* C9 witness: a login timed out on a store that held an account.
C9_Witness ==
  /\ pc = "done" /\ outcome = "timed_out"
  /\ store0.session_token # None /\ store = store0

\* C10: the client enforces expires_in itself: no answer obtained after
\* expires_in has elapsed leads to Authenticated (credentials persisted).
C10_ClientSideCap ==
  (pc = "done" /\ outcome = "logged_in") => elapsed <= expires_in

\* ------------------------------------------------- properties: legacy API-key login

\* the legacy login has ended
KeyLoginEnded ==
  pc = "done" /\ outcome \in {"key_login_failed", "invalid_key", "key_logged_in"}

\* C11: the legacy API-key login asks for the session exactly once and
\* never polls; when the call fails or the session is a guest's the
\* command exits nonzero and the stored api_key is as it was; otherwise the
\* supplied key is stored and success is reported with exit code 0.  In
\* all cases session_token, user_info, guest_id and current_session are
\* as they were.
C11_LegacyKeyLogin ==
  KeyLoginEnded =>
    /\ calls = <<Call("get_session", <<>>)>>
    /\ IF outcome = "key_logged_in"
       THEN /\ exit_code = 0
            /\ output = <<print_success("Logged in")>>
            /\ store = set_api_key(store0, client.api_key[1])
       ELSE /\ exit_code # 0
            /\ PrintedError("Login failed")
            /\ outcome = "invalid_key" => PrintedError("Invalid API key")
            /\ store = store0
    /\ store.session_token = store0.session_token
    /\ store.user_info = store0.user_info
    /\ store.guest_id = store0.guest_id
    /\ store.current_session = store0.current_session

\* C11 witness: a guest's session came back for a key other than the
\* stored one, and the stored key and account are still there.
C11_Witness ==
  /\ pc = "done" /\ outcome = "invalid_key"
  /\ client.api_key = Some("key2") /\ store.api_key = Some("key1")
  /\ store.session_token # None /\ store.current_session # None

\* ------------------------------------------------- properties: play

\* play is between its start and the answer of start_session, or has
\* ended without a session having been started
BeforeSessionStarted ==
  \/ pc \in {"select_realm", "campfire", "start_session"}
  \/ pc = "done" /\ outcome \in {"play_returned", "play_failed"}

\* C12: with a stored session that has a realm and no realm argument, the
\* answer n leads to the realm selection (the first thing play then does
\* is to list the realms), and on every path of play that ends before
\* start_session has answered (realm list failure, invalid realm choice,
\* campfire failure, invalid or given-up character choice, start_session
\* failure) the stored current session is what it was.
C12_ResumeDeclined ==
  /\ resume = Some("n") =>
       /\ Resumable(store0.current_session)
       /\ IF calls = <<>> THEN pc = "select_realm"
          ELSE calls[1] = Call("list_worlds_grouped", <<>>)
  /\ resume = Some("y") => pc \in {"game_loop", "done"} /\ calls = <<>>
  /\ BeforeSessionStarted => store.current_session = store0.current_session

\* C12 witness: the resume was declined, a realm and a character were
\* chosen, start_session failed, and the stored session is still there.
C12_Witness ==
  /\ pc = "done" /\ outcome = "play_failed" /\ resume = Some("n")
  /\ Len(calls) = 3 /\ calls[3].op = "start_session"
  /\ store.current_session = Some(StoredSession)

\* ------------------------------------------------- properties: failures in the game loop

\* the gateway call made for the line failed: the request raised or the
\* service answered with a non-2xx status
GatewayFailed == response \in {Some("http_error"), Some("network_error")}

\* a line has been handled with a gateway call
HandledWithCall == pc = "loop_top" /\ action # <<>> /\ calls # <<>>

\* C13: in the game loop a failed gateway call (gameplay action, look,
\* inventory, rest, send_dm, get_pending_messages, send_global_chat,
\* get_global_chat) is rendered as exactly one error line and the loop goes
\* on to read the next line; it is never rendered as a success or as an
\* empty result.
C13_GatewayFailureRendered ==
  /\ (HandledWithCall /\ GatewayFailed) =>
       /\ Len(calls) = 1
       /\ Len(output) = 1 /\ output[1].kind = "error"
  /\ pc = "loop_exited" => calls = <<>>

\* ------------------------------------------------- properties: validation errors

\* C14: a validation error ends the command with a visible message and a
\* nonzero exit code: an email without "@" in login, before any gateway
\* request, and an out-of-range choice in the realm or character menu of
\* play.
C14_ValidationErrorsExitNonzero ==
  /\ (pc = "done" /\ outcome = "invalid_email") =>
       /\ PrintedError("Valid email is required")
       /\ calls = <<>>
       /\ exit_code # 0
  /\ (pc = "done" /\ PrintedError("Invalid choice")) => exit_code # 0

\* ------------------------------------------------- properties: end of the game loop

\* nothing printed for the line is an error
NoErrorPrinted(out) == \A i \in 1..Len(out) : out[i].kind # "error"

\* one step of the game loop ends it only from the prompt (interrupt, end
\* of input) or on a quit command, and then without an error; any other
\* line read leads back to the top of the loop, from where the next step
\* is the next read; an empty line makes no gateway call and changes
\* nothing
LoopStep ==
  /\ (pc # "loop_exited" /\ pc' = "loop_exited") =>
       /\ pc = "prompt" \/ (pc = "dispatch" /\ Command(action) = "quit")
       /\ NoErrorPrinted(output') /\ exit_code' = 0
       /\ calls' = <<>>
  /\ (pc = "dispatch" /\ Command(action) # "quit") => pc' = "loop_top"
  /\ pc = "loop_top" => pc' = "prompt"
  /\ (pc = "dispatch" /\ Command(action) = "empty") =>
       /\ calls = <<>> /\ output = <<>>
       /\ UNCHANGED <<calls, output, store, client, loopVars>>

\* C15: the game loop ends only on a quit command or on an interrupt /
\* end of input while a line is read, and then cleanly; every other line
\* (empty, recognized command, unknown slash command, chat intent,
\* gameplay action, its gateway call failed or not) is followed by another
\* read, and an empty line causes no gateway call and no change of state.
C15_LoopEndsOnlyOnQuitOrInterrupt == [][LoopStep]_vars

\* C15 witness: a gameplay action whose request failed has been handled and
\* the loop is back at its top.
C15_Witness ==
  /\ pc = "loop_top" /\ action = Ex_AttackGoblin
  /\ response = Some("network_error")
  /\ output = <<print_error("Action failed")>>

\* ------------------------------------------------- properties: the client's credential

\* the client in use is the one get_client built from the store, and the
\* identity in the store has not been written since
BuiltByGetClient ==
  \/ pc \in {"login_polling", "select_realm", "campfire", "start_session",
             "game_loop"}
  \/ pc = "done" /\ outcome \in {"status_shown", "status_failed", "played",
                                  "play_returned", "play_failed"}

\* C16: whatever commands have run before, the client get_client builds
\* carries no API key when a session token is stored (even if an API key
\* is stored too) and then has the stored user_id as its player key, or
\* the stored guest id when no user is stored; without a stored session
\* token it carries the stored API key and the stored guest id.
C16_OneCredential ==
  BuiltByGetClient =>
    IF store.session_token # None
    THEN /\ client.api_key = None
         /\ client.guest_id = IF store.user_info # None
                              THEN Some(store.user_info[1].user_id)
                              ELSE store.guest_id
    ELSE /\ client.api_key = store.api_key
         /\ client.guest_id = store.guest_id

\* C16 witness: a session token and an API key are both stored and the
\* client that plays carries no API key.
C16_Witness ==
  /\ pc = "game_loop"
  /\ store.session_token # None /\ store.api_key # None
  /\ client.api_key = None /\ client.guest_id = Some("user1")

\* ------------------------------------------------- properties: logout

\* a step of logout clears api_key, session_token, user_info and
\* current_session, calls nothing and leaves guest_id and api_url alone,
\* so that the guest id of a logged-in account, its user_id, stays
LogoutStep ==
  (pc = "shell" /\ outcome' = "logged_out") =>
    /\ store'.api_key = None /\ store'.session_token = None
    /\ store'.user_info = None /\ store'.current_session = None
    /\ calls' = <<>>
    /\ store'.guest_id = store.guest_id
    /\ store'.api_url = store.api_url
    /\ store.user_info # None =>
         store'.guest_id = Some(store.user_info[1].user_id)

\* a client built without a stored session token has the stored guest id
\* as its player key
GuestStep ==
  (BuiltByGetClient' /\ store'.session_token = None /\ store'.guest_id # None) =>
    player_key(client') = store'.guest_id[1]

\* C17: logout clears api_key, session_token, user_info and
\* current_session whatever the store holds, makes no gateway call and
\* leaves guest_id and api_url as they were; so after a device-code login
\* and a logout the stored guest id is still the user_id of the account,
\* and it is the player key of the calls made afterwards.
C17_LogoutKeepsGuestId == [][LogoutStep /\ GuestStep]_vars

\* C17 witness: after a login and a logout, play runs as a guest whose
\* player key is the user_id of the account that was logged out.
C17_Witness ==
  /\ pc = "campfire"
  /\ store.session_token = None /\ store.user_info = None /\ store.api_key = None
  /\ store.guest_id = Some("user1") /\ player_key(client) = "user1"
  /\ store.api_url = "custom_url"

\* ------------------------------------------------- properties: all-or-nothing login

\* C18: the device-code login persists all of its result or nothing: a
\* stored session token always comes with the stored user info and with
\* the guest id equal to the user_id; when an authorized answer lacks
\* session_token, user_id, email or display_name, the login fails and has
\* written none of session_token, user_info and guest_id.
C18_AllOrNothing ==
  /\ store.session_token # None =>
       /\ store.user_info # None
       /\ store.guest_id = Some(store.user_info[1].user_id)
  /\ (pc = "done" /\ LastStatus = "authorized" /\ ~HasAllFields(token_result[1])) =>
       /\ exit_code # 0
       /\ OnlyGuestIdGenerated

\* ------------------------------------------------- properties: connective words of a DM

\* the pattern "message|dm|pm <recipient> [and] say|tell them <body>"
ConnectivePattern == 4

\* the connective pattern matches the text
MatchesConnective(a) ==
  re_match(dm_patterns[ConnectivePattern], strip(lower(a))) # None

\* the characters of the text, in their original case, that the body group
\* of the connective pattern covers
ConnectiveBody(a) ==
  LET m == re_match(dm_patterns[ConnectivePattern], strip(lower(a)))
  IN  SubSeq(a, LeadingSpaces(a) + m[1][2][1] + 1, LeadingSpaces(a) + m[1][2][2])

\* C19: a text of the form "message|dm|pm <recipient> [and] say|tell them
\* <body>" is matched first by the pattern written for that form, and the
\* body _parse_dm_intent returns is <body> alone, without "and say",
\* "say" or "tell them".
C19_ConnectivesStripped ==
  ("dm" \in parsed /\ MatchesConnective(text)) =>
    /\ FirstMatching(dm_patterns, strip(lower(text))) = ConnectivePattern
    /\ dm_intent # None
    /\ dm_intent[1].message = ConnectiveBody(text)

====
